---- MODULE Spec2Model ----
(***************************************************************************)
(* Model of NI6229Card (hardware/national_instruments_m_series.py): the    *)
(* bookkeeping of the DAQmx task handles, the stored clock frequencies,    *)
(* the position range and the device reset, with the vendor driver as a    *)
(* source of calls that either succeed or raise.                           *)
(***************************************************************************)
EXTENDS Integers, Sequences, FiniteSets, TLC

\* ------------------------------------------------------------------------
\* Values
\* ------------------------------------------------------------------------

\* Python's None
None == "None"

\* An optional argument left at its default None, and one that is given
NoArg == << >>

Arg(v) == << v >>

\* What an operation returns: an error code, nothing, an array, or it raises
Code(c) == [ kind |-> "int", val |-> << c >> ]

Nothing == [ kind |-> "None", val |-> << >> ]

Array(a) == [ kind |-> "array", val |-> a ]

Raised == [ kind |-> "raised", val |-> << >> ]

\* daq.TaskHandle(): a handle object that is bound to no task of the driver
TaskHandle == "TaskHandle"

\* a handle that DAQmxCreateTask has bound to a task of the driver
Created == "Created"

\* ------------------------------------------------------------------------
\* Bounds of the model
\* ------------------------------------------------------------------------

\* number of distinct clock frequencies passed to the set_up_*_clock operations
MaxFreqArgs == 1

\* largest value of the samples argument of get_counter
MaxSamples == 2

\* position limits are drawn from 0..MaxCoord
MaxCoord == 1

\* width in bits of the model's unsigned integers
WordBits == 8

\* number of configured channels that may deviate from the default device
MaxDeviating == 1

\* the longest line that is scanned, in points
MaxPoints == 2

\* ------------------------------------------------------------------------
\* Channel names: sequences of characters
\* ------------------------------------------------------------------------

\* [0-9A-Za-z] as far as the model's channel names use it
AlnumChars == {"D", "C", "P", "A", "0", "1", "2", "3", "8"}

\* [0-9A-Za-z\- ]
DevFirstChars == AlnumChars \cup {"-", " "}

\* [0-9A-Za-z\-_ ]
DevRestChars == DevFirstChars \cup {"_"}

\* Index of the first character at or after position i that is not in cls
\* (Len(s) + 1 when there is none)
RECURSIVE RunEnd(_, _, _)
RunEnd(s, i, cls) ==
    IF i > Len(s) THEN i
    ELSE IF s[i] \in cls THEN RunEnd(s, i + 1, cls)
    ELSE i

\* re.match('^/(?P<dev>[0-9A-Za-z\- ]+[0-9A-Za-z\-_ ]*)/(?P<chan>[0-9A-Za-z]+)',
\*          channel).group('dev'), or the empty name when there is no match
MatchDev(channel) ==
    IF Len(channel) < 4 \/ channel[1] # "/" \/ channel[2] \notin DevFirstChars
    THEN << >>
    ELSE LET j == RunEnd(channel, 2, DevRestChars)
         IN  IF j + 1 <= Len(channel) /\ channel[j] = "/"
                /\ channel[j + 1] \in AlnumChars
             THEN SubSeq(channel, 2, j - 1)
             ELSE << >>

\* A Python number: an int, or a float (with an integral value in the model)
PyInt(n) == [ float |-> FALSE, val |-> n ]

PyFloat(n) == [ float |-> TRUE, val |-> n ]

\* float(x) of a Python int
float(n) == PyFloat(n)

\* '/Dev<d>/<c><n>'
Chan(d, c, n) == <<"/", "D", d, "/", c, n>>

\* the configuration of the example in the class docstring, with its ranges
\* and its samples_number (50 there) scaled down
DefaultConfig ==
    [ clock_channel           |-> Chan("2", "C", "1"),
      counter_channel         |-> Chan("2", "C", "0"),
      scanner_clock_channel   |-> Chan("2", "C", "1"),
      scanner_counter_channel |-> Chan("2", "C", "0"),
      photon_source           |-> Chan("2", "P", "8"),
      trigger_channel         |-> Chan("2", "C", "1"),
      odmr_clock_channel      |-> Chan("2", "C", "1"),
      odmr_counter_channel    |-> Chan("2", "C", "0"),
      scanner_x_ao            |-> Chan("2", "A", "0"),
      scanner_y_ao            |-> Chan("2", "A", "1"),
      scanner_z_ao            |-> Chan("2", "A", "2"),
      clock_frequency         |-> PyInt(100),
      scanner_clock_frequency |-> PyInt(100),
      odmr_clock_frequency    |-> PyInt(50),
      samples_number          |-> 2,
      x_range                 |-> <<0, 1>>,
      y_range                 |-> <<0, 1>>,
      z_range                 |-> <<0, 1>>,
      voltage_x_range         |-> <<0, 8>>,
      voltage_y_range         |-> <<0, 8>>,
      voltage_z_range         |-> <<0, 8>> ]

\* the eleven options that name a channel
ChannelOptions ==
    { "clock_channel", "counter_channel", "scanner_clock_channel",
      "scanner_counter_channel", "photon_source", "trigger_channel",
      "odmr_clock_channel", "odmr_counter_channel", "scanner_x_ao",
      "scanner_y_ao", "scanner_z_ao" }

\* other channel names an option can be set to: on another device, on a
\* device with an underscore in its name, without the leading slash, and on a
\* device whose name starts with an underscore
OtherChannels ==
    { Chan("1", "C", "0"),
      << "/", "D", "_", "1", "/", "C", "0" >>,
      << "D", "1", "/", "C", "0" >>,
      << "/", "_", "D", "/", "C", "0" >> }

\* the configurations that differ from DefaultConfig in at most n channels
RECURSIVE Configs(_)
Configs(n) ==
    IF n = 0 THEN { DefaultConfig }
    ELSE Configs(n - 1)
         \cup { [ c EXCEPT ![o] = ch ] :
                  c \in Configs(n - 1), o \in ChannelOptions,
                  ch \in OtherChannels }

\* ------------------------------------------------------------------------
\* State
\* ------------------------------------------------------------------------

VARIABLES
    config,                     \* the ConfigOption values of the module
    active,                     \* on_activate has returned without raising
    _clock_daq_task,
    _counter_daq_task,
    _scanner_clock_daq_task,
    _scanner_ao_task,
    _scanner_counter_daq_task,
    _odmr_clock_daq_task,
    _odmr_counter_daq_task,
    _clock_frequency,
    _scanner_clock_frequency,
    _odmr_clock_frequency,
    _scanner_ao_channels,
    _position_range,
    _line_length,
    _current_position,
    op,                         \* the last operation and its arguments
    ret,                        \* what the last operation returned
    log,                        \* the error the last operation logged
    calls                       \* the driver calls the last operation made

handles == << _clock_daq_task, _counter_daq_task, _scanner_clock_daq_task,
              _scanner_ao_task, _scanner_counter_daq_task,
              _odmr_clock_daq_task, _odmr_counter_daq_task >>

\* what the scanner keeps besides its tasks
scanner == << _position_range, _line_length, _current_position >>

frequencies == << _clock_frequency, _scanner_clock_frequency,
                  _odmr_clock_frequency >>

vars == << config, active, _clock_daq_task, _counter_daq_task,
           _scanner_clock_daq_task, _scanner_ao_task,
           _scanner_counter_daq_task, _odmr_clock_daq_task,
           _odmr_counter_daq_task, _clock_frequency,
           _scanner_clock_frequency, _odmr_clock_frequency,
           _scanner_ao_channels, _position_range, _line_length,
           _current_position, op, ret, log, calls >>

\* ------------------------------------------------------------------------
\* The driver
\* ------------------------------------------------------------------------

\* The calls made by a try block that runs the driver functions fns in order
\* and whose k-th call raises (k = 0: none raises).  arg is the device name
\* of a call that takes one, and empty for a call that takes a task.
Run(fns, k) ==
    [ i \in 1..(IF k = 0 THEN Len(fns) ELSE k) |->
        [ fn |-> fns[i], arg |-> << >>, ok |-> i # k ] ]

\* The indices at which a try block of n driver calls can raise, when the
\* call number must (0: none) is certain to raise
FailPoints(n, must) == IF must = 0 THEN 0..n ELSE 1..must

\* A driver function that takes a task raises when the handle is None or is
\* bound to no task
Dead(handle) == handle # Created

\* ------------------------------------------------------------------------
\* Arguments
\* ------------------------------------------------------------------------

\* the clock_frequency argument of the set_up_*_clock operations
FreqArgs == {NoArg} \cup {Arg(10 * i) : i \in 1..MaxFreqArgs}

\* the clock_channel argument of set_up_counter, set_up_scanner, set_up_odmr
ClockChannelArgs == {NoArg, Arg(Chan("2", "C", "1"))}

\* the scanner_ao_channels argument of set_up_scanner
AoChannelArgs ==
    { NoArg,
      Arg(<< Chan("2", "A", "0") >>),
      Arg(<< Chan("2", "A", "0"), Chan("2", "A", "1"),
             Chan("2", "A", "2"), Chan("2", "A", "3") >>) }

\* ------------------------------------------------------------------------
\* Analog output
\* ------------------------------------------------------------------------

\* self._voltage_range of on_activate: one range per axis x, y, z
_voltage_range ==
    << config.voltage_x_range, config.voltage_y_range,
       config.voltage_z_range >>

\* The driver functions _start_analog_output runs in its try block, for the
\* handle ao and the channel list chans.  Reading self._voltage_range[n] for a
\* channel beyond the last range raises IndexError in place of the call.
StartAnalogOutputFns(ao, chans) ==
    (IF ao # None THEN << "DAQmxStopTask", "DAQmxClearTask" >> ELSE << >>)
    \o << "DAQmxCreateTask" >>
    \o [ n \in 1..Len(chans) |->
           IF n <= Len(_voltage_range) THEN "DAQmxCreateAOVoltageChan"
           ELSE "IndexError" ]

\* The call of _start_analog_output that is certain to raise (0: none)
StartAnalogOutputMust(ao, chans) ==
    IF ao # None /\ Dead(ao) THEN 1
    ELSE IF Len(chans) > Len(_voltage_range)
         THEN (IF ao # None THEN 2 ELSE 0) + 1 + Len(_voltage_range) + 1
         ELSE 0

\* _start_analog_output with the handle set to None before the old task is
\* stopped and cleared
_start_analog_output_handle_first(ao, chans, k) ==
    LET fns == StartAnalogOutputFns(ao, chans)
        pre == IF ao # None THEN 2 ELSE 0
    IN  [ ao    |-> IF k \in 1..pre THEN None
                    ELSE IF k = pre + 1 THEN TaskHandle
                    ELSE Created,
          ret   |-> IF k = 0 THEN 0 ELSE -1,
          calls |-> Run(fns, k) ]

\* _start_analog_output when its k-th driver call raises (k = 0: none):
\* the new _scanner_ao_task, the return value and the driver calls
_start_analog_output(ao, chans, k) ==
    LET fns == StartAnalogOutputFns(ao, chans)
        pre == IF ao # None THEN 2 ELSE 0
    IN  [ ao    |-> IF k \in 1..pre THEN ao
                    ELSE IF k = pre + 1 THEN TaskHandle
                    ELSE Created,
          ret   |-> IF k = 0 THEN 0 ELSE -1,
          calls |-> Run(fns, k) ]

\* the k for which _start_analog_output(ao, chans, k) can happen
StartAnalogOutputFail(ao, chans) ==
    FailPoints(Len(StartAnalogOutputFns(ao, chans)),
               StartAnalogOutputMust(ao, chans))

\* _stop_analog_output when DAQmxStopTask raises (stopFails) and
\* DAQmxSetSampTimingType raises (timingFails): the return value and the calls
_stop_analog_output(ao, stopFails, timingFails) ==
    IF ao = None
    THEN [ ret |-> -1, calls |-> << >> ]
    ELSE [ ret   |-> IF stopFails \/ timingFails THEN -1 ELSE 0,
           calls |-> << [ fn |-> "DAQmxStopTask", arg |-> << >>,
                          ok |-> ~stopFails ],
                        [ fn |-> "DAQmxSetSampTimingType", arg |-> << >>,
                          ok |-> ~timingFails ] >> ]

\* ------------------------------------------------------------------------
\* Activation
\* ------------------------------------------------------------------------

\* The module before its activation, for the configuration in config; the
\* attributes that on_activate creates have no value yet.
Constructed ==
    /\ active = FALSE
    /\ _clock_daq_task = None
    /\ _counter_daq_task = None
    /\ _scanner_clock_daq_task = None
    /\ _scanner_ao_task = None
    /\ _scanner_counter_daq_task = None
    /\ _odmr_clock_daq_task = None
    /\ _odmr_counter_daq_task = None
    /\ _clock_frequency = config.clock_frequency
    /\ _scanner_clock_frequency = config.scanner_clock_frequency
    /\ _odmr_clock_frequency = config.odmr_clock_frequency
    /\ _scanner_ao_channels = << >>
    /\ _position_range = << >>
    /\ _line_length = 0
    /\ _current_position = << >>
    /\ op = << "__init__" >>
    /\ ret = Nothing
    /\ log = ""
    /\ calls = << >>

Init ==
    /\ config = DefaultConfig
    /\ Constructed

on_activate ==
    /\ ~active
    /\ LET chans == << config.scanner_x_ao, config.scanner_y_ao,
                       config.scanner_z_ao >>
       IN  \E k \in StartAnalogOutputFail(None, chans) :
             LET r == _start_analog_output(None, chans, k)
             IN  /\ _scanner_ao_task' = r.ao
                 /\ _scanner_ao_channels' = chans
                 /\ calls' = r.calls
                 /\ active' = (r.ret >= 0)
                 /\ ret' = IF r.ret < 0 THEN Raised ELSE Nothing
                 /\ log' = IF r.ret < 0 THEN "Failed to start analog output."
                           ELSE ""
    /\ _clock_daq_task' = None
    /\ _counter_daq_task' = None
    /\ _scanner_clock_daq_task' = None
    /\ _scanner_counter_daq_task' = None
    /\ _odmr_clock_daq_task' = None
    /\ _odmr_counter_daq_task' = None
    /\ _line_length' = 100
    /\ _position_range' = << config.x_range, config.y_range, config.z_range >>
    /\ _current_position' = << 0, 0, 0 >>
    /\ op' = << "on_activate" >>
    /\ UNCHANGED << config, frequencies >>

\* ------------------------------------------------------------------------
\* Clocks
\* ------------------------------------------------------------------------

ClockFns ==
    << "DAQmxCreateTask", "DAQmxCreateCOPulseChanFreq",
       "DAQmxCfgImplicitTiming", "DAQmxStartTask" >>

ScannerClockFns ==
    << "DAQmxCreateTask", "DAQmxCreateCOPulseChanFreq",
       "DAQmxCfgImplicitTiming" >>

\* an operation that returns -1 after logging msg, before any driver call
Rejected(msg) ==
    /\ ret' = Code(-1)
    /\ log' = msg
    /\ calls' = << >>
    /\ UNCHANGED << handles, frequencies, _scanner_ao_channels >>

set_up_clock(clock_frequency) ==
    /\ active
    /\ op' = << "set_up_clock", clock_frequency >>
    /\ UNCHANGED << config, active, scanner >>
    /\ IF _clock_daq_task # None
       THEN Rejected("Another counter clock is already running")
       ELSE IF _scanner_clock_daq_task # None
       THEN Rejected("Only one clock channel is available!")
       ELSE \E k \in FailPoints(Len(ClockFns), 0) :
              /\ _clock_daq_task' = IF k = 1 THEN TaskHandle ELSE Created
              /\ _clock_frequency' = IF clock_frequency # NoArg
                                     THEN float(clock_frequency[1])
                                     ELSE _clock_frequency
              /\ calls' = Run(ClockFns, k)
              /\ ret' = Code(IF k = 0 THEN 0 ELSE -1)
              /\ log' = IF k = 0 THEN ""
                        ELSE "Error while setting up Counter clock."
              /\ UNCHANGED << _counter_daq_task, _scanner_clock_daq_task,
                              _scanner_ao_task, _scanner_counter_daq_task,
                              _odmr_clock_daq_task, _odmr_counter_daq_task,
                              _scanner_clock_frequency, _odmr_clock_frequency,
                              _scanner_ao_channels >>

set_up_scanner_clock(clock_frequency) ==
    /\ active
    /\ op' = << "set_up_scanner_clock", clock_frequency >>
    /\ UNCHANGED << config, active, scanner >>
    /\ IF _scanner_clock_daq_task # None
       THEN Rejected("Another scanner counter clock is already running")
       ELSE IF _clock_daq_task # None
       THEN Rejected("Only one clock channel is available!")
       ELSE \E k \in FailPoints(Len(ScannerClockFns), 0) :
              /\ _scanner_clock_daq_task' = IF k = 1 THEN TaskHandle
                                            ELSE Created
              /\ _scanner_clock_frequency' = IF clock_frequency # NoArg
                                             THEN float(clock_frequency[1])
                                             ELSE _scanner_clock_frequency
              /\ calls' = Run(ScannerClockFns, k)
              /\ ret' = Code(IF k = 0 THEN 0 ELSE -1)
              /\ log' = IF k = 0 THEN ""
                        ELSE "Error while setting up scanner clock."
              /\ UNCHANGED << _clock_daq_task, _counter_daq_task,
                              _scanner_ao_task, _scanner_counter_daq_task,
                              _odmr_clock_daq_task, _odmr_counter_daq_task,
                              _clock_frequency, _odmr_clock_frequency,
                              _scanner_ao_channels >>

\* set_up_odmr_clock with the frequency stored before the handles are checked
set_up_odmr_clock_frequency_first(clock_frequency) ==
    /\ active
    /\ op' = << "set_up_odmr_clock", clock_frequency >>
    /\ UNCHANGED << config, active, scanner >>
    /\ _odmr_clock_frequency' = IF clock_frequency # NoArg
                                THEN float(clock_frequency[1])
                                ELSE _odmr_clock_frequency
    /\ UNCHANGED << _clock_daq_task, _counter_daq_task,
                    _scanner_clock_daq_task, _scanner_ao_task,
                    _scanner_counter_daq_task, _odmr_counter_daq_task,
                    _clock_frequency, _scanner_clock_frequency,
                    _scanner_ao_channels >>
    /\ IF \/ _odmr_clock_daq_task # None
          \/ _clock_daq_task # None
          \/ _scanner_clock_daq_task # None
       THEN /\ ret' = Code(-1)
            /\ log' = IF _odmr_clock_daq_task # None
                      THEN "Another scanner counter clock is already running"
                      ELSE "Only one clock channel is available!"
            /\ calls' = << >>
            /\ UNCHANGED _odmr_clock_daq_task
       ELSE \E k \in FailPoints(Len(ScannerClockFns), 0) :
              /\ _odmr_clock_daq_task' = IF k = 1 THEN TaskHandle
                                         ELSE Created
              /\ calls' = Run(ScannerClockFns, k)
              /\ ret' = Code(IF k = 0 THEN 0 ELSE -1)
              /\ log' = IF k = 0 THEN ""
                        ELSE "Error while setting up odmr clock."

set_up_odmr_clock(clock_frequency) ==
    /\ active
    /\ op' = << "set_up_odmr_clock", clock_frequency >>
    /\ UNCHANGED << config, active, scanner >>
    /\ IF _odmr_clock_daq_task # None
       THEN Rejected("Another scanner counter clock is already running")
       ELSE IF _clock_daq_task # None \/ _scanner_clock_daq_task # None
       THEN Rejected("Only one clock channel is available!")
       ELSE \E k \in FailPoints(Len(ScannerClockFns), 0) :
              /\ _odmr_clock_daq_task' = IF k = 1 THEN TaskHandle
                                         ELSE Created
              /\ _odmr_clock_frequency' = IF clock_frequency # NoArg
                                          THEN float(clock_frequency[1])
                                          ELSE _odmr_clock_frequency
              /\ calls' = Run(ScannerClockFns, k)
              /\ ret' = Code(IF k = 0 THEN 0 ELSE -1)
              /\ log' = IF k = 0 THEN ""
                        ELSE "Error while setting up odmr clock."
              /\ UNCHANGED << _clock_daq_task, _counter_daq_task,
                              _scanner_clock_daq_task, _scanner_ao_task,
                              _scanner_counter_daq_task,
                              _odmr_counter_daq_task, _clock_frequency,
                              _scanner_clock_frequency,
                              _scanner_ao_channels >>

\* What a close_*_clock operation does to its handle: the new handle, the
\* return value and the calls when driver call k raises (k = 0: none)
CloseFns == << "DAQmxStopTask", "DAQmxClearTask" >>

CloseFail(handle) == FailPoints(Len(CloseFns), IF Dead(handle) THEN 1 ELSE 0)

\* close_clock with the handle set to None after the try block
close_clock_after_try ==
    /\ active
    /\ op' = << "close_clock" >>
    /\ \E k \in CloseFail(_clock_daq_task) :
         /\ calls' = Run(CloseFns, k)
         /\ ret' = Code(IF k = 0 THEN 0 ELSE -1)
         /\ log' = IF k = 0 THEN "" ELSE "Could not close clock."
    /\ _clock_daq_task' = None
    /\ UNCHANGED << config, active, scanner, frequencies,
                    _scanner_ao_channels, _counter_daq_task,
                    _scanner_clock_daq_task, _scanner_ao_task,
                    _scanner_counter_daq_task, _odmr_clock_daq_task,
                    _odmr_counter_daq_task >>

close_clock ==
    /\ active
    /\ op' = << "close_clock" >>
    /\ \E k \in CloseFail(_clock_daq_task) :
         /\ _clock_daq_task' = IF k = 0 THEN None ELSE _clock_daq_task
         /\ calls' = Run(CloseFns, k)
         /\ ret' = Code(IF k = 0 THEN 0 ELSE -1)
         /\ log' = IF k = 0 THEN "" ELSE "Could not close clock."
    /\ UNCHANGED << config, active, scanner, frequencies,
                    _scanner_ao_channels, _counter_daq_task,
                    _scanner_clock_daq_task, _scanner_ao_task,
                    _scanner_counter_daq_task, _odmr_clock_daq_task,
                    _odmr_counter_daq_task >>

close_scanner_clock ==
    /\ active
    /\ op' = << "close_scanner_clock" >>
    /\ \E k \in CloseFail(_scanner_clock_daq_task) :
         /\ _scanner_clock_daq_task' = IF k = 0 THEN None
                                       ELSE _scanner_clock_daq_task
         /\ calls' = Run(CloseFns, k)
         /\ ret' = Code(IF k = 0 THEN 0 ELSE -1)
         /\ log' = IF k = 0 THEN "" ELSE "Could not close clock."
    /\ UNCHANGED << config, active, scanner, frequencies,
                    _scanner_ao_channels, _clock_daq_task, _counter_daq_task,
                    _scanner_ao_task, _scanner_counter_daq_task,
                    _odmr_clock_daq_task, _odmr_counter_daq_task >>

close_odmr_clock ==
    /\ active
    /\ op' = << "close_odmr_clock" >>
    /\ \E k \in CloseFail(_odmr_clock_daq_task) :
         /\ _odmr_clock_daq_task' = IF k = 0 THEN None
                                    ELSE _odmr_clock_daq_task
         /\ calls' = Run(CloseFns, k)
         /\ ret' = Code(IF k = 0 THEN 0 ELSE -1)
         /\ log' = IF k = 0 THEN "" ELSE "Could not close odmr clock."
    /\ UNCHANGED << config, active, scanner, frequencies,
                    _scanner_ao_channels, _clock_daq_task, _counter_daq_task,
                    _scanner_clock_daq_task, _scanner_ao_task,
                    _scanner_counter_daq_task, _odmr_counter_daq_task >>

\* ------------------------------------------------------------------------
\* Counters
\* ------------------------------------------------------------------------

\* the driver calls of the first try block of set_up_counter
CounterFns ==
    << "DAQmxCreateTask", "DAQmxCreateCISemiPeriodChan",
       "DAQmxSetCISemiPeriodTerm", "DAQmxSetCICtrTimebaseSrc",
       "DAQmxCfgImplicitTiming", "DAQmxSetReadRelativeTo",
       "DAQmxSetReadOffset", "DAQmxSetReadOverWrite" >>

\* the driver calls of the try block of set_up_scanner and of set_up_odmr
EdgeCounterFns == << "DAQmxCreateTask", "DAQmxCreateCICountEdgesChan" >>

\* close_counter with the handle set to None in the try block
close_counter_in_try ==
    /\ active
    /\ op' = << "close_counter" >>
    /\ \E k \in CloseFail(_counter_daq_task) :
         /\ calls' = Run(CloseFns, k)
         /\ ret' = Code(IF k = 0 THEN 0 ELSE -1)
         /\ log' = IF k = 0 THEN "" ELSE "Could not close counter."
         /\ _counter_daq_task' = IF k = 0 THEN None ELSE _counter_daq_task
    /\ UNCHANGED << config, active, scanner, frequencies,
                    _scanner_ao_channels, _clock_daq_task,
                    _scanner_clock_daq_task, _scanner_ao_task,
                    _scanner_counter_daq_task, _odmr_clock_daq_task,
                    _odmr_counter_daq_task >>

close_counter ==
    /\ active
    /\ op' = << "close_counter" >>
    /\ \E k \in CloseFail(_counter_daq_task) :
         /\ calls' = Run(CloseFns, k)
         /\ ret' = Code(IF k = 0 THEN 0 ELSE -1)
         /\ log' = IF k = 0 THEN "" ELSE "Could not close counter."
    /\ _counter_daq_task' = None
    /\ UNCHANGED << config, active, scanner, frequencies,
                    _scanner_ao_channels, _clock_daq_task,
                    _scanner_clock_daq_task, _scanner_ao_task,
                    _scanner_counter_daq_task, _odmr_clock_daq_task,
                    _odmr_counter_daq_task >>

\* The counter_channels and sources arguments only select the channel names
\* handed to the driver; clock_channel also decides the first check.
set_up_counter(clock_channel) ==
    /\ active
    /\ op' = << "set_up_counter", clock_channel >>
    /\ UNCHANGED << config, active, scanner >>
    /\ IF _clock_daq_task = None /\ clock_channel = NoArg
       THEN Rejected("No clock running")
       ELSE IF _counter_daq_task # None \/ _scanner_counter_daq_task # None
       THEN Rejected("Another counter is already running")
       ELSE /\ \/ \E k \in 1..Len(CounterFns) :
                    \* the first try block raises
                    /\ _counter_daq_task' = IF k = 1 THEN TaskHandle
                                            ELSE Created
                    /\ calls' = Run(CounterFns, k)
                    /\ ret' = Code(-1)
                    /\ log' = "Error while setting up counting task."
               \/ \* DAQmxStartTask raises and close_counter is called
                  \E j \in FailPoints(Len(CloseFns), 0) :
                    /\ _counter_daq_task' = None
                    /\ calls' = Run(CounterFns, 0)
                                \o Run(<< "DAQmxStartTask" >>, 1)
                                \o Run(CloseFns, j)
                    /\ ret' = Code(-1)
                    /\ log' = IF j = 0 THEN "Error while starting Counter."
                              ELSE "Could not close counter."
               \/ /\ _counter_daq_task' = Created
                  /\ calls' = Run(CounterFns, 0)
                              \o Run(<< "DAQmxStartTask" >>, 0)
                  /\ ret' = Code(0)
                  /\ log' = ""
            /\ UNCHANGED << _clock_daq_task, _scanner_clock_daq_task,
                            _scanner_ao_task, _scanner_counter_daq_task,
                            _odmr_clock_daq_task, _odmr_counter_daq_task,
                            frequencies, _scanner_ao_channels >>

set_up_scanner(clock_channel, scanner_ao_channels) ==
    /\ active
    /\ op' = << "set_up_scanner", clock_channel, scanner_ao_channels >>
    /\ UNCHANGED << config, active, scanner >>
    /\ IF _scanner_clock_daq_task = None /\ clock_channel = NoArg
       THEN Rejected("No clock running")
       ELSE IF _scanner_counter_daq_task # None \/ _counter_daq_task # None
       THEN Rejected("Another counter is already running")
       ELSE \E k \in FailPoints(Len(EdgeCounterFns), 0) :
              /\ IF scanner_ao_channels # NoArg
                 THEN \E a \in StartAnalogOutputFail(_scanner_ao_task,
                                                     scanner_ao_channels[1]) :
                        LET r == _start_analog_output(_scanner_ao_task,
                                     scanner_ao_channels[1], a)
                        IN  /\ _scanner_ao_channels' = scanner_ao_channels[1]
                            /\ _scanner_ao_task' = r.ao
                            /\ calls' = r.calls \o Run(EdgeCounterFns, k)
                 ELSE /\ calls' = Run(EdgeCounterFns, k)
                      /\ UNCHANGED << _scanner_ao_channels, _scanner_ao_task >>
              /\ _scanner_counter_daq_task' = IF k = 1 THEN TaskHandle
                                              ELSE Created
              /\ ret' = Code(IF k = 0 THEN 0 ELSE -1)
              /\ log' = IF k = 0 THEN ""
                        ELSE "Error while setting up scanner counting task."
              /\ UNCHANGED << _clock_daq_task, _counter_daq_task,
                              _scanner_clock_daq_task, _odmr_clock_daq_task,
                              _odmr_counter_daq_task, frequencies >>

\* set_up_odmr with the first check on the clock of the slow counter
set_up_odmr_wrong_clock(clock_channel) ==
    /\ active
    /\ op' = << "set_up_odmr", clock_channel >>
    /\ UNCHANGED << config, active, scanner >>
    /\ IF _clock_daq_task = None /\ clock_channel = NoArg
       THEN Rejected("No clock running")
       ELSE IF \/ _odmr_counter_daq_task # None
               \/ _scanner_counter_daq_task # None
               \/ _counter_daq_task # None
       THEN Rejected("Another counter is already running")
       ELSE \E k \in FailPoints(Len(EdgeCounterFns), 0) :
              /\ _odmr_counter_daq_task' = IF k = 1 THEN TaskHandle
                                           ELSE Created
              /\ calls' = Run(EdgeCounterFns, k)
              /\ ret' = Code(IF k = 0 THEN 0 ELSE -1)
              /\ log' = IF k = 0 THEN ""
                        ELSE "Error while setting up ODMR counting task."
              /\ UNCHANGED << _clock_daq_task, _counter_daq_task,
                              _scanner_clock_daq_task, _scanner_ao_task,
                              _scanner_counter_daq_task, _odmr_clock_daq_task,
                              frequencies, _scanner_ao_channels >>

set_up_odmr(clock_channel) ==
    /\ active
    /\ op' = << "set_up_odmr", clock_channel >>
    /\ UNCHANGED << config, active, scanner >>
    /\ IF _odmr_clock_daq_task = None /\ clock_channel = NoArg
       THEN Rejected("No clock running")
       ELSE IF \/ _odmr_counter_daq_task # None
               \/ _scanner_counter_daq_task # None
               \/ _counter_daq_task # None
       THEN Rejected("Another counter is already running")
       ELSE \E k \in FailPoints(Len(EdgeCounterFns), 0) :
              /\ _odmr_counter_daq_task' = IF k = 1 THEN TaskHandle
                                           ELSE Created
              /\ calls' = Run(EdgeCounterFns, k)
              /\ ret' = Code(IF k = 0 THEN 0 ELSE -1)
              /\ log' = IF k = 0 THEN ""
                        ELSE "Error while setting up ODMR counting task."
              /\ UNCHANGED << _clock_daq_task, _counter_daq_task,
                              _scanner_clock_daq_task, _scanner_ao_task,
                              _scanner_counter_daq_task, _odmr_clock_daq_task,
                              frequencies, _scanner_ao_channels >>

close_scanner ==
    /\ active
    /\ op' = << "close_scanner" >>
    /\ \E stopFails \in BOOLEAN, timingFails \in BOOLEAN :
       \E k \in CloseFail(_scanner_counter_daq_task) :
         LET res == _stop_analog_output(_scanner_ao_task, stopFails,
                                        timingFails)
         IN  /\ Dead(_scanner_ao_task) => stopFails /\ timingFails
             /\ _scanner_counter_daq_task' =
                    IF k = 0 THEN None ELSE _scanner_counter_daq_task
             /\ calls' = res.calls \o Run(CloseFns, k)
             \* res | error
             /\ ret' = Code(IF res.ret = 0 /\ k = 0 THEN 0 ELSE -1)
             /\ log' = IF k # 0 THEN "Could not close scanner counter."
                       ELSE IF _scanner_ao_task = None THEN ""
                       ELSE IF timingFails
                       THEN "Error changing analog output mode."
                       ELSE IF stopFails THEN "Error stopping analog output."
                       ELSE ""
    /\ UNCHANGED << config, active, scanner, frequencies,
                    _scanner_ao_channels, _clock_daq_task, _counter_daq_task,
                    _scanner_clock_daq_task, _scanner_ao_task,
                    _odmr_clock_daq_task, _odmr_counter_daq_task >>

close_odmr ==
    /\ active
    /\ op' = << "close_odmr" >>
    /\ \E k \in CloseFail(_odmr_counter_daq_task) :
         /\ _odmr_counter_daq_task' = IF k = 0 THEN None
                                      ELSE _odmr_counter_daq_task
         /\ calls' = Run(CloseFns, k)
         /\ ret' = Code(IF k = 0 THEN 0 ELSE -1)
         /\ log' = IF k = 0 THEN "" ELSE "Could not close odmr counter."
    /\ UNCHANGED << config, active, scanner, frequencies,
                    _scanner_ao_channels, _clock_daq_task, _counter_daq_task,
                    _scanner_clock_daq_task, _scanner_ao_task,
                    _scanner_counter_daq_task, _odmr_clock_daq_task >>

\* ------------------------------------------------------------------------
\* Reading the counter
\* ------------------------------------------------------------------------

\* The largest value of numpy's uint32.  TLC's integers are 32 bits wide, so
\* the model's unsigned integers are WordBits wide in place of 32.
UInt32Max == 2 ^ WordBits - 1

\* the value of n as a uint32
Wrap32(n) == n % (UInt32Max + 1)

\* the samples argument of get_counter
SampleArgs == {NoArg} \cup {Arg(n) : n \in -1..MaxSamples}

\* the counts the driver can deliver
CountValues == {0, 1, UInt32Max}

\* np.ones((rows, samples), dtype=np.uint32) * -1 for an int samples >= 0:
\* the uint32 ones promoted to int64 by the negative factor
MinusOnes(rows, samples) == [ i \in 1..rows |-> [ j \in 1..samples |-> -1 ] ]

\* array * frequency for a uint32 array: the product stays uint32 for an int
\* frequency and becomes float64 for a float frequency
TimesFrequency(array, frequency) ==
    [ i \in 1..Len(array) |->
        [ j \in 1..Len(array[i]) |->
            IF frequency.float THEN array[i][j] * frequency.val
            ELSE Wrap32(array[i][j] * frequency.val) ] ]

get_counter(samples) ==
    /\ active
    /\ op' = << "get_counter", samples >>
    /\ UNCHANGED << config, active, handles, frequencies,
                    _scanner_ao_channels, scanner >>
    /\ IF _counter_daq_task = None
       THEN /\ log' = "No counter running"
            /\ calls' = << >>
            \* np.ones((1, samples)): samples must be a non-negative int
            /\ ret' = IF samples = NoArg THEN Raised
                      ELSE IF samples[1] < 0 THEN Raised
                      ELSE Array(MinusOnes(1, samples[1]))
       ELSE LET n == IF samples = NoArg THEN config.samples_number
                     ELSE samples[1]
            IN  IF n < 0
                THEN \* np.empty raises, and so does np.ones in the handler
                     /\ log' = "Getting samples from counter failed."
                     /\ calls' = << >>
                     /\ ret' = Raised
                ELSE \/ /\ calls' = Run(<< "DAQmxReadCounterU32" >>, 1)
                        /\ log' = "Getting samples from counter failed."
                        /\ ret' = Array(MinusOnes(1, n))
                     \/ /\ ~Dead(_counter_daq_task)
                        /\ calls' = Run(<< "DAQmxReadCounterU32" >>, 0)
                        /\ log' = ""
                        /\ \E count_data \in [ 1..n -> CountValues ] :
                             ret' = Array(TimesFrequency(<< count_data >>,
                                                         _clock_frequency))

\* ------------------------------------------------------------------------
\* Reset
\* ------------------------------------------------------------------------

\* chanlist of reset_hardware
chanlist ==
    << config.trigger_channel,
       config.clock_channel,
       config.scanner_clock_channel,
       config.scanner_counter_channel,
       config.photon_source,
       config.scanner_x_ao,
       config.scanner_y_ao,
       config.scanner_z_ao >>

\* set(devicelist) of reset_hardware for the channel list chans
devicelist(chans) ==
    { MatchDev(chans[i]) : i \in { n \in 1..Len(chans) :
                                     MatchDev(chans[n]) # << >> } }

\* the orders in which a set can be iterated
Orders(S) ==
    { o \in [ 1..Cardinality(S) -> S ] :
        \A i, j \in 1..Cardinality(S) : i # j => o[i] # o[j] }

\* reset_hardware when the devices are reset in the order given and
\* DAQmxResetDevice raises for the devices in failed
ResetHardware(order, failed) ==
    [ ret   |-> IF failed = {} THEN 0 ELSE -1,
      calls |-> [ i \in 1..Len(order) |->
                    [ fn |-> "DAQmxResetDevice", arg |-> order[i],
                      ok |-> order[i] \notin failed ] ],
      log   |-> IF failed # {} THEN "Could not reset NI device"
                ELSE IF \E n \in 1..Len(chanlist) :
                          MatchDev(chanlist[n]) = << >>
                THEN "Did not find device name"
                ELSE "" ]

reset_hardware ==
    /\ active
    /\ op' = << "reset_hardware" >>
    /\ \E order \in Orders(devicelist(chanlist)) :
       \E failed \in SUBSET devicelist(chanlist) :
         LET r == ResetHardware(order, failed)
         IN  /\ ret' = Code(r.ret)
             /\ calls' = r.calls
             /\ log' = r.log
    /\ UNCHANGED << config, active, handles, frequencies,
                    _scanner_ao_channels, scanner >>

on_deactivate ==
    /\ active
    /\ op' = << "on_deactivate" >>
    /\ active' = FALSE
    /\ \E order \in Orders(devicelist(chanlist)) :
       \E failed \in SUBSET devicelist(chanlist) :
         LET r == ResetHardware(order, failed)
         IN  /\ ret' = Nothing
             /\ calls' = r.calls
             /\ log' = r.log
    /\ UNCHANGED << config, handles, frequencies, _scanner_ao_channels,
                    scanner >>

\* ------------------------------------------------------------------------
\* Position range
\* ------------------------------------------------------------------------

\* a lower and an upper limit
Pairs == { << lo, hi >> : lo \in 0..MaxCoord, hi \in 0..MaxCoord }

\* the ranges set_position_range accepts
ValidRanges == { r \in [ 1..4 -> Pairs ] : \A i \in 1..4 : r[i][1] <= r[i][2] }

WholeRange == [ i \in 1..4 |-> << 0, MaxCoord >> ]

\* ranges with one limit that is in the wrong order or has one element only
FaultyRanges ==
    { [ WholeRange EXCEPT ![i] = pos ] :
        i \in 1..4,
        pos \in { p \in Pairs : p[1] > p[2] } \cup { << 0 >> } }

\* The myrange argument of set_position_range: an array type or not, and
\* its elements
RangeArgs ==
    { NoArg, Arg([ array |-> FALSE, val |-> << >> ]) }
    \cup { Arg([ array |-> TRUE, val |-> r ]) :
             r \in ValidRanges \cup FaultyRanges
                   \cup { SubSeq(WholeRange, 1, 3) } }

\* the value get_position_range returns
PositionRange ==
    << config.x_range, config.y_range, config.z_range, << 0, 0 >> >>

get_position_range ==
    /\ active
    /\ op' = << "get_position_range" >>
    /\ ret' = Array(PositionRange)
    /\ log' = ""
    /\ calls' = << >>
    /\ UNCHANGED << config, active, handles, frequencies,
                    _scanner_ao_channels, scanner >>

\* The new _position_range, the result and the logged error of
\* set_position_range(myrange).  Formatting a list with {:d} in the two
\* messages of the loop raises.
SetPositionRange(myrange) ==
    IF myrange = NoArg
    THEN [ range |-> _position_range, ret |-> Code(0),
           log |-> "No position range passed. Skip range setting." ]
    ELSE IF ~myrange[1].array
    THEN [ range |-> _position_range, ret |-> Code(-1),
           log |-> "Given range is no array type." ]
    ELSE IF Len(myrange[1].val) # 4
    THEN [ range |-> _position_range, ret |-> Code(-1),
           log |-> "Given range should have dimension 4" ]
    ELSE IF \E i \in 1..4 :
              \/ Len(myrange[1].val[i]) # 2
              \/ myrange[1].val[i][1] > myrange[1].val[i][2]
    THEN [ range |-> _position_range, ret |-> Raised, log |-> "" ]
    ELSE [ range |-> myrange[1].val, ret |-> Code(0), log |-> "" ]

set_position_range(myrange) ==
    /\ active
    /\ op' = << "set_position_range", myrange >>
    /\ _position_range' = SetPositionRange(myrange).range
    /\ ret' = SetPositionRange(myrange).ret
    /\ log' = SetPositionRange(myrange).log
    /\ calls' = << >>
    /\ UNCHANGED << config, active, handles, frequencies,
                    _scanner_ao_channels, _line_length, _current_position >>

\* ------------------------------------------------------------------------
\* Scanning a line
\* ------------------------------------------------------------------------

\* one driver call with its argument, and whether it returned
Call(fn, arg, ok) == [ fn |-> fn, arg |-> arg, ok |-> ok ]

\* the number of points of a line path: np.shape(line_path)[1]
Points(line_path) == Len(line_path.val[1])

\* _scanner_position_to_volt(positions) for a matrix with one row per axis:
\* it raises when a position range is empty (division by zero), it returns
\* [NaN] when a voltage leaves its range, and the voltages otherwise.  The
\* quotient is exact for the ranges of the model.
_scanner_position_to_volt(positions) ==
    LET vr == _voltage_range
        pr == _position_range
        volt(i, x) == ((vr[i][2] - vr[i][1]) * (x - pr[i][1]))
                         \div (pr[i][2] - pr[i][1]) + vr[i][1]
    IN  IF \E i \in 1..Len(positions) : pr[i][2] = pr[i][1]
        THEN [ kind |-> "raised", val |-> << >> ]
        ELSE LET volts == [ i \in 1..Len(positions) |->
                              [ n \in 1..Len(positions[i]) |->
                                  volt(i, positions[i][n]) ] ]
             IN  IF \E i \in 1..Len(volts) : \E n \in 1..Len(volts[i]) :
                        volts[i][n] < vr[i][1] \/ volts[i][n] > vr[i][2]
                 THEN [ kind |-> "nan", val |-> << >> ]
                 ELSE [ kind |-> "volts", val |-> volts ]

\* _set_up_line(length) when its j-th driver call raises (j = 0: none): the
\* calls, with the number of samples each task is configured for
_set_up_line(length, j) ==
    [ ret   |-> IF j = 0 THEN 0 ELSE -1,
      calls |-> SubSeq(<< Call("DAQmxCfgSampClkTiming", << length + 2 >>,
                               j # 1),
                          Call("DAQmxCfgSampClkTiming", << length >>,
                               j # 2) >>,
                       1, IF j = 0 THEN 2 ELSE j) ]

\* the driver calls of scan_line between _set_up_line and _stop_analog_output
ScanFns ==
    << "DAQmxWriteAnalogF64", "DAQmxStartTask", "DAQmxStartTask",
       "DAQmxStartTask", "DAQmxWaitUntilTaskDone", "DAQmxWaitUntilTaskDone",
       "DAQmxReadCounterU32", "DAQmxStopTask" >>

\* the driver calls cs, with the samples that a DAQmxReadCounterU32 that
\* returned has written to _scan_data[0]
Read(cs, samples) ==
    [ i \in 1..Len(cs) |->
        IF cs[i].fn = "DAQmxReadCounterU32" /\ cs[i].ok
        THEN Call(cs[i].fn, samples, TRUE)
        ELSE cs[i] ]

\* the counts of the points of a line: the differences of the samples
\* between the first and the last, as uint32
RealData(scan_data) ==
    [ index \in 1..(Len(scan_data) - 2) |->
        Wrap32(scan_data[index + 1] - scan_data[index]) ]

\* (self._real_data * frequency / 2).transpose(): one row per point.  The
\* frequencies of the model are even, so that the quotient is exact.
CountRates(real_data, frequency) ==
    [ index \in 1..Len(real_data) |->
        << TimesFrequency(<< real_data >>, frequency)[1][index] \div 2 >> ]

\* the result of scan_line in case of an error: np.array([[-1.]])
ScanError == Array(<< << -1 >> >>)

\* A path is a list, an ndarray or something that is not an array type; the
\* samples are what DAQmxReadCounterU32 delivers when it is reached.
scan_line(line_path, samples) ==
    /\ active
    /\ op' = << "scan_line", line_path >>
    /\ UNCHANGED << config, active, handles, frequencies,
                    _scanner_ao_channels, _position_range >>
    /\ IF _scanner_counter_daq_task = None
       THEN /\ ret' = ScanError
            /\ log' = "No scanner counter is running"
            /\ calls' = << >>
            /\ UNCHANGED << _line_length, _current_position >>
       ELSE IF line_path.type \notin {"list", "ndarray"}
       THEN /\ ret' = ScanError
            /\ log' = "Given line_path list is not array type."
            /\ calls' = << >>
            /\ UNCHANGED << _line_length, _current_position >>
       ELSE \/ \* DAQmxSetSampTimingType raises
               /\ ret' = ScanError
               /\ log' = "Error while scanning line."
               /\ calls' = Run(<< "DAQmxSetSampTimingType" >>, 1)
               /\ UNCHANGED << _line_length, _current_position >>
            \/ /\ ~Dead(_scanner_ao_task)
               /\ _line_length' = Points(line_path)
               /\ \E j \in FailPoints(2, IF Dead(_scanner_counter_daq_task)
                                         THEN 1 ELSE 0) :
                  LET first == Run(<< "DAQmxSetSampTimingType" >>, 0)
                               \o _set_up_line(Points(line_path), j).calls
                      volts == _scanner_position_to_volt(line_path.val)
                      must  == IF Dead(_scanner_counter_daq_task) THEN 3
                               ELSE IF Dead(_scanner_clock_daq_task) THEN 4
                               ELSE 0
                  IN  IF line_path.type = "list" \/ volts.kind = "raised"
                      THEN \* list - number and the division by zero raise
                           /\ ret' = ScanError
                           /\ log' = "Error while scanning line."
                           /\ calls' = first
                           /\ UNCHANGED _current_position
                      ELSE \/ \E k \in FailPoints(Len(ScanFns), must) \ {0} :
                                /\ Len(samples) = Points(line_path) + 2
                                /\ ret' = ScanError
                                /\ log' = "Error while scanning line."
                                /\ calls' = first
                                            \o Read(Run(ScanFns, k), samples)
                                /\ UNCHANGED _current_position
                           \/ /\ must = 0
                              /\ Len(samples) = Points(line_path) + 2
                              /\ \E stopFails \in BOOLEAN,
                                    timingFails \in BOOLEAN,
                                    clockFails \in BOOLEAN :
                                   LET res == _stop_analog_output(
                                                  _scanner_ao_task, stopFails,
                                                  timingFails)
                                       all == first
                                              \o Read(Run(ScanFns, 0), samples)
                                              \o res.calls
                                              \o Run(<< "DAQmxStopTask" >>,
                                                     IF clockFails THEN 1
                                                     ELSE 0)
                                   IN  /\ calls' = all
                                       /\ IF clockFails
                                          THEN /\ ret' = ScanError
                                               /\ log' =
                                                  "Error while scanning line."
                                               /\ UNCHANGED _current_position
                                          ELSE /\ ret' = Array(CountRates(
                                                      RealData(samples),
                                                      _scanner_clock_frequency))
                                               /\ log' =
                                                    IF timingFails
                                                    THEN "Error changing analog output mode."
                                                    ELSE IF stopFails
                                                    THEN "Error stopping analog output."
                                                    ELSE IF j # 0
                                                    THEN "Error while setting up scanner to scan a line."
                                                    ELSE ""
                                               /\ _current_position' =
                                                    [ i \in 1..Len(line_path.val) |->
                                                        line_path.val[i][Points(line_path)] ]

\* the line paths of the life cycle: no array, a list, and arrays of one point
\* inside and outside the position range
LinePaths ==
    { [ type |-> "None", val |-> << >> ],
      [ type |-> "list", val |-> << << 0 >>, << 0 >>, << 0 >> >> ],
      [ type |-> "ndarray", val |-> << << 0 >>, << 0 >>, << 0 >> >> ],
      [ type |-> "ndarray",
        val |-> << << MaxCoord + 1 >>, << 0 >>, << 0 >> >> ] }

\* the samples the counter delivers for a line of one point
LineSamples == { << 0, 0, 0 >>, << UInt32Max, 0, 1 >> }

\* the lines of up to MaxPoints points that run along x, as arrays
ScanPaths ==
    { [ type |-> "ndarray",
        val |-> << [ n \in 1..m |-> (n - 1) % (MaxCoord + 1) ],
                   [ n \in 1..m |-> 0 ],
                   [ n \in 1..m |-> 0 ] >> ] : m \in 1..MaxPoints }

\* the values of a cumulative counter sample
SampleValues == { 0, 3 }

\* the samples the counter delivers for a line of m points
ScanSamples(m) == [ 1..(m + 2) -> SampleValues ]

\* ------------------------------------------------------------------------
\* Specifications
\* ------------------------------------------------------------------------

\* the life cycle of the tasks, with the clocks at their configured frequency
Next ==
    \/ on_activate
    \/ on_deactivate
    \/ reset_hardware
    \/ set_up_clock(NoArg)
    \/ set_up_scanner_clock(NoArg)
    \/ set_up_odmr_clock(NoArg)
    \/ \E clock_channel \in ClockChannelArgs : set_up_counter(clock_channel)
    \/ \E clock_channel \in ClockChannelArgs :
       \E scanner_ao_channels \in AoChannelArgs :
         set_up_scanner(clock_channel, scanner_ao_channels)
    \/ \E clock_channel \in ClockChannelArgs : set_up_odmr(clock_channel)
    \/ close_counter
    \/ close_clock
    \/ close_scanner
    \/ close_scanner_clock
    \/ close_odmr
    \/ close_odmr_clock

Spec == Init /\ [][Next]_vars

\* the scanner: every operation that uses the analog output task
NextScanner ==
    \/ on_activate
    \/ on_deactivate
    \/ reset_hardware
    \/ set_up_scanner_clock(NoArg)
    \/ \E clock_channel \in ClockChannelArgs :
       \E scanner_ao_channels \in AoChannelArgs :
         set_up_scanner(clock_channel, scanner_ao_channels)
    \/ \E line_path \in LinePaths : \E samples \in LineSamples :
         scan_line(line_path, samples)
    \/ close_scanner
    \/ close_scanner_clock

SpecScanner == Init /\ [][NextScanner]_vars

\* the three clocks and their frequencies
NextClock ==
    \/ on_activate
    \/ on_deactivate
    \/ \E clock_frequency \in FreqArgs : set_up_clock(clock_frequency)
    \/ \E clock_frequency \in FreqArgs : set_up_scanner_clock(clock_frequency)
    \/ \E clock_frequency \in FreqArgs : set_up_odmr_clock(clock_frequency)
    \/ close_clock
    \/ close_scanner_clock
    \/ close_odmr_clock

SpecClock == Init /\ [][NextClock]_vars

\* the slow counter and its clock
NextCounter ==
    \/ on_activate
    \/ on_deactivate
    \/ \E clock_frequency \in FreqArgs : set_up_clock(clock_frequency)
    \/ \E clock_channel \in ClockChannelArgs : set_up_counter(clock_channel)
    \/ \E samples \in SampleArgs : get_counter(samples)
    \/ close_counter
    \/ close_clock

SpecCounter == Init /\ [][NextCounter]_vars

\* the reset of the devices, for the configurations of Configs(MaxDeviating)
InitReset ==
    /\ config \in Configs(MaxDeviating)
    /\ Constructed

NextReset ==
    \/ on_activate
    \/ reset_hardware
    \/ on_deactivate

SpecReset == InitReset /\ [][NextReset]_vars

\* the position range
NextRange ==
    \/ on_activate
    \/ \E myrange \in RangeArgs : set_position_range(myrange)
    \/ get_position_range
    \/ on_deactivate

SpecRange == Init /\ [][NextRange]_vars

\* the scan of lines of several points, at the configured and at a given
\* clock frequency
NextLine ==
    \/ on_activate
    \/ on_deactivate
    \/ \E clock_frequency \in FreqArgs : set_up_scanner_clock(clock_frequency)
    \/ set_up_scanner(NoArg, NoArg)
    \/ \E line_path \in ScanPaths :
       \E samples \in ScanSamples(Points(line_path)) :
         scan_line(line_path, samples)
    \/ close_scanner
    \/ close_scanner_clock

SpecLine == Init /\ [][NextLine]_vars

\* the operations that close a clock or a counter
CloseOps ==
    { "close_counter", "close_clock", "close_scanner", "close_scanner_clock",
      "close_odmr", "close_odmr_clock" }

\* a client that sets tasks up and then closes them: once it has called a
\* close operation it calls nothing but close operations
NextClosing ==
    \/ /\ op[1] \notin CloseOps
       /\ \/ on_activate
          \/ set_up_clock(NoArg)
          \/ set_up_scanner_clock(NoArg)
          \/ set_up_odmr_clock(NoArg)
          \/ set_up_counter(NoArg)
          \/ set_up_scanner(NoArg, NoArg)
          \/ set_up_odmr(NoArg)
    \/ close_counter
    \/ close_clock
    \/ close_scanner
    \/ close_scanner_clock
    \/ close_odmr
    \/ close_odmr_clock

\* the client goes on calling every close operation, and the driver does
\* not raise for ever when it stops and clears a task that exists
FairClosing ==
    /\ WF_vars(close_counter)
    /\ WF_vars(close_clock)
    /\ WF_vars(close_scanner)
    /\ WF_vars(close_scanner_clock)
    /\ WF_vars(close_odmr)
    /\ WF_vars(close_odmr_clock)
    /\ SF_vars(close_clock /\ _clock_daq_task' = None)
    /\ SF_vars(close_scanner /\ _scanner_counter_daq_task' = None)
    /\ SF_vars(close_scanner_clock /\ _scanner_clock_daq_task' = None)
    /\ SF_vars(close_odmr /\ _odmr_counter_daq_task' = None)
    /\ SF_vars(close_odmr_clock /\ _odmr_clock_daq_task' = None)

SpecClosing == Init /\ [][NextClosing]_vars /\ FairClosing

\* ------------------------------------------------------------------------
\* Properties
\* ------------------------------------------------------------------------

\* the operation returned the error code c
IsCode(r, c) == r.kind = "int" /\ r.val = << c >>

\* every one of the driver calls returned
AllOk(cs) == \A i \in 1..Len(cs) : cs[i].ok

\* how many of the handles are not None
Running(hs) == Cardinality({ i \in 1..Len(hs) : hs[i] # None })

SetUpClocks == { "set_up_clock", "set_up_scanner_clock", "set_up_odmr_clock" }

CloseClocks == { "close_clock", "close_scanner_clock", "close_odmr_clock" }

\* C1: while the module is active, at most one of the three clock task
\* handles is not None.
C1_OnlyOneClock ==
    active => Running(<< _clock_daq_task, _scanner_clock_daq_task,
                         _odmr_clock_daq_task >>) <= 1

\* C2: while the module is active, at most one of the three counter task
\* handles is not None.
C2_OnlyOneCounter ==
    active => Running(<< _counter_daq_task, _scanner_counter_daq_task,
                         _odmr_counter_daq_task >>) <= 1

\* the step returned -1 without a driver call and kept handles and frequencies
RejectedUntouched ==
    /\ IsCode(ret', -1)
    /\ calls' = << >>
    /\ UNCHANGED handles
    /\ UNCHANGED frequencies

\* C3: a set_up_clock, set_up_scanner_clock or set_up_odmr_clock called while
\* its own clock handle is not None returns -1, makes no driver call and
\* leaves the seven handles and the three clock frequencies as they are,
\* whatever clock_frequency is passed.
C3_RunningClockRejected ==
    [][ /\ (op'[1] = "set_up_clock" /\ _clock_daq_task # None)
              => RejectedUntouched
        /\ (op'[1] = "set_up_scanner_clock" /\ _scanner_clock_daq_task # None)
              => RejectedUntouched
        /\ (op'[1] = "set_up_odmr_clock" /\ _odmr_clock_daq_task # None)
              => RejectedUntouched ]_vars

\* C3: set_up_odmr_clock was rejected because the ODMR clock is set up, with
\* a clock_frequency that is not the stored one.
C3_Witness ==
    /\ op[1] = "set_up_odmr_clock"
    /\ op[2] # NoArg
    /\ log = "Another scanner counter clock is already running"
    /\ IsCode(ret, -1)
    /\ _odmr_clock_daq_task # None
    /\ _odmr_clock_frequency # float(op[2][1])

\* the step returned -1, created no task and kept the handles
RejectedNoTask ==
    /\ IsCode(ret', -1)
    /\ \A i \in 1..Len(calls') : calls'[i].fn # "DAQmxCreateTask"
    /\ UNCHANGED handles

\* C4: a set_up_counter, set_up_scanner or set_up_odmr called without a
\* clock_channel while its clock handle is None returns -1, creates no task
\* and leaves every handle as it is.
C4_NoClockRejected ==
    [][ /\ (op'[1] = "set_up_counter" /\ op'[2] = NoArg
            /\ _clock_daq_task = None) => RejectedNoTask
        /\ (op'[1] = "set_up_scanner" /\ op'[2] = NoArg
            /\ _scanner_clock_daq_task = None) => RejectedNoTask
        /\ (op'[1] = "set_up_odmr" /\ op'[2] = NoArg
            /\ _odmr_clock_daq_task = None) => RejectedNoTask ]_vars

\* C4: set_up_scanner was rejected for its missing clock although the slow
\* counter's clock runs and new analog output channels were passed.
C4_Witness ==
    /\ op[1] = "set_up_scanner"
    /\ op[2] = NoArg
    /\ op[3] # NoArg
    /\ log = "No clock running"
    /\ IsCode(ret, -1)
    /\ _scanner_clock_daq_task = None
    /\ _clock_daq_task # None

\* C5: get_counter without a counter returns an array filled with -1 and
\* does not raise, whatever samples is.
C5_NoCounterGivesMinusOnes ==
    (op[1] = "get_counter" /\ _counter_daq_task = None)
        => /\ ret.kind = "array"
           /\ \A i \in 1..Len(ret.val) : \A j \in 1..Len(ret.val[i]) :
                ret.val[i][j] = -1

\* every configured channel
ConfiguredChannels ==
    << config.clock_channel, config.counter_channel,
       config.scanner_clock_channel, config.scanner_counter_channel,
       config.odmr_clock_channel, config.odmr_counter_channel,
       config.photon_source, config.trigger_channel,
       config.scanner_x_ao, config.scanner_y_ao, config.scanner_z_ao >>

\* C6: reset_hardware hands every device that a configured channel names to
\* DAQmxResetDevice.
C6_ResetActsOnAllDevices ==
    op[1] = "reset_hardware"
        => \A device \in devicelist(ConfiguredChannels) :
             \E i \in 1..Len(calls) :
               calls[i].fn = "DAQmxResetDevice" /\ calls[i].arg = device

\* C7: while the module is active _scanner_ao_task is not None; an
\* on_activate that returns leaves the six clock and counter handles None;
\* and on_activate raises when a driver call of the analog output raises.
C7_AnalogOutputKept ==
    /\ active => _scanner_ao_task # None
    /\ (op[1] = "on_activate" /\ ret.kind = "None")
          => /\ active
             /\ _scanner_ao_task # None
             /\ Running(<< _clock_daq_task, _counter_daq_task,
                           _scanner_clock_daq_task, _scanner_counter_daq_task,
                           _odmr_clock_daq_task, _odmr_counter_daq_task >>) = 0
    /\ (op[1] = "on_activate" /\ ~AllOk(calls))
          => ret.kind = "raised" /\ ~active

\* C7: set_up_scanner restarted the analog output for new channels, the
\* driver raised while clearing the old task, and the handle is still there.
C7_Witness ==
    /\ active
    /\ op[1] = "set_up_scanner"
    /\ op[3] # NoArg
    /\ \E i \in 1..Len(calls) : calls[i].fn = "DAQmxClearTask" /\ ~calls[i].ok
    /\ _scanner_ao_task # None

\* what close_counter does whether or not the driver raises
CloseCounterStep ==
    op'[1] = "close_counter"
        => /\ _counter_daq_task' = None
           /\ AllOk(calls') => IsCode(ret', 0)
           /\ ~AllOk(calls') => IsCode(ret', -1)

\* C8 as stated: close_counter leaves _counter_daq_task None and returns 0
\* or -1 with the driver, and the set_up_counter or set_up_scanner that
\* follows is not rejected with 'Another counter is already running'.
C8_CloseCounterUnblocks ==
    [][ /\ CloseCounterStep
        /\ (op[1] = "close_counter"
            /\ op'[1] \in { "set_up_counter", "set_up_scanner" })
              => log' # "Another counter is already running" ]_vars

\* C8 as amended: close_counter leaves _counter_daq_task None and returns 0
\* or -1 with the driver; the set_up_counter or set_up_scanner that follows
\* is rejected with 'Another counter is already running' only when a scanner
\* counter is set up, and then close_counter had no counter to close and
\* returned -1.
C8_CloseCounterClears ==
    [][ /\ CloseCounterStep
        /\ (op[1] = "close_counter"
            /\ op'[1] \in { "set_up_counter", "set_up_scanner" }
            /\ log' = "Another counter is already running")
              => /\ _scanner_counter_daq_task # None
                 /\ IsCode(ret, -1)
                 /\ ~calls[1].ok ]_vars

\* C8: close_counter stopped a counter, the driver raised while clearing it,
\* and the handle is None.
C8_Witness ==
    /\ op[1] = "close_counter"
    /\ IsCode(ret, -1)
    /\ Len(calls) = 2
    /\ calls[1].ok
    /\ ~calls[2].ok
    /\ _counter_daq_task = None

\* what the close of the clock in handle does
CloseClockStep(name, before, after) ==
    op'[1] = name
        => /\ IsCode(ret', 0) <=> (Len(calls') = 2 /\ AllOk(calls'))
           /\ IsCode(ret', 0) => after = None
           /\ ~IsCode(ret', 0) => (IsCode(ret', -1) /\ after = before)

\* C9: close_clock, close_scanner_clock and close_odmr_clock return 0 exactly
\* when stop and clear both succeed, and then the handle is None; otherwise
\* they return -1 and the handle keeps its value.  After a successful close
\* that leaves no clock, the next set-up of any clock reaches the driver.
C9_CloseClock ==
    [][ /\ CloseClockStep("close_clock", _clock_daq_task, _clock_daq_task')
        /\ CloseClockStep("close_scanner_clock", _scanner_clock_daq_task,
                          _scanner_clock_daq_task')
        /\ CloseClockStep("close_odmr_clock", _odmr_clock_daq_task,
                          _odmr_clock_daq_task')
        /\ (op[1] \in CloseClocks /\ IsCode(ret, 0)
            /\ Running(<< _clock_daq_task, _scanner_clock_daq_task,
                          _odmr_clock_daq_task >>) = 0
            /\ op'[1] \in SetUpClocks)
              => calls' # << >> ]_vars

\* C9: close_scanner_clock stopped a clock, the driver raised while clearing
\* it, and the handle is kept.
C9_Witness ==
    /\ op[1] = "close_scanner_clock"
    /\ IsCode(ret, -1)
    /\ Len(calls) = 2
    /\ calls[1].ok
    /\ ~calls[2].ok
    /\ _scanner_clock_daq_task = Created

\* C10: the get_position_range that follows a set_position_range(r) that
\* returned 0 returns r.
C10_GetReturnsWhatWasSet ==
    [][ (op[1] = "set_position_range" /\ op[2] # NoArg /\ IsCode(ret, 0)
         /\ op'[1] = "get_position_range")
           => (ret'.kind = "array" /\ ret'.val = op[2][1].val) ]_vars

\* the last point of a line path
LastPoint(line_path) ==
    [ i \in 1..Len(line_path.val) |-> line_path.val[i][Points(line_path)] ]

\* the driver configured a task for n samples
Configured(cs, n) ==
    \E i \in 1..Len(cs) : cs[i] = Call("DAQmxCfgSampClkTiming", << n >>, TRUE)

\* the samples that the DAQmxReadCounterU32 among the calls cs has read
ScanData(cs) ==
    LET i == CHOOSE i \in 1..Len(cs) : cs[i].fn = "DAQmxReadCounterU32"
    IN  cs[i].arg

\* C11: a scan_line over m points that succeeds configures the counter for
\* m + 2 samples and the analog output for m samples, reads m + 2 samples s
\* and returns m rows, row i being ((s[i+1] - s[i]) mod 2^32) times
\* _scanner_clock_frequency / 2, so that neither s[0] nor s[m+1] is a count;
\* afterwards the scanner position is the last point of the line.
C11_ScanLineRates ==
    (op[1] = "scan_line" /\ ret # ScanError)
        => LET m == Points(op[2])
               s == ScanData(calls)
           IN  /\ Configured(calls, m + 2)
               /\ Configured(calls, m)
               /\ Len(s) = m + 2
               /\ ret.kind = "array"
               /\ Len(ret.val) = m
               /\ \A i \in 1..m :
                    ret.val[i] = << (Wrap32(s[i + 1] - s[i])
                                      * _scanner_clock_frequency.val) \div 2 >>
               /\ _current_position = LastPoint(op[2])

\* no clock and no counter is set up
Idle ==
    Running(<< _clock_daq_task, _counter_daq_task, _scanner_clock_daq_task,
               _scanner_counter_daq_task, _odmr_clock_daq_task,
               _odmr_counter_daq_task >>) = 0

\* C12: from every state of the active module, whatever set-up calls led to
\* it and whether or not they failed in the driver, calling the six close
\* operations leads to a state where the six clock and counter handles are
\* None (where set_up_clock has a step that returns 0).
C12_ClosingLeadsToIdle ==
    (active /\ op[1] \in CloseOps) ~> Idle

====
